---- MODULE Spec2Model ----
(***************************************************************************)
(* Routine tracker: the day-off ledger and the streak engine of app.js,    *)
(* over the three localStorage keys "routines", "settings", "completions". *)
(*                                                                         *)
(* Date strings "YYYY-MM-DD" are triples <<y, m, d>>, the empty string is  *)
(* <<>>, a month prefix "YYYY-MM" is <<y, m>>.  A JavaScript Date is its   *)
(* time value, counted here in minutes (not milliseconds) from             *)
(* 2025-01-01T00:00Z; local fields are read through tzOffset.              *)
(***************************************************************************)
EXTENDS Integers, Sequences, FiniteSets, TLC

VARIABLES
    routines,     \* localStorage["routines"]: sequence of routine records
    settings,     \* localStorage["settings"]: [dayOffLimit, dayOffRecords]
    completions,  \* localStorage["completions"]: date string -> sequence of pairs
    clock,        \* the time value new Date() returns
    tzOffset,     \* minutes the local zone is ahead of UTC
    idCounter,    \* number of ids generateRoutineId has handed out
    last,         \* the last call: operation, arguments, result, prior values
    stored,       \* the keys localStorage holds an item for
    setItemFails, \* localStorage.setItem can throw (storage full or unavailable)
    lastUsageDate \* the item of USAGE_KEY (earlier snapshot), NoDate when absent

vars == <<routines, settings, completions, clock, tzOffset, idCounter, last,
          stored, setItemFails, lastUsageDate>>

store == <<routines, settings, completions>>

----------------------------------------------------------------------------
(* Bounds *)

MaxDays == 3          \* number of day advances after the first day
MaxRoutines == 2      \* routines addRoutine may create
MaxLimit == 2         \* largest dayOffLimit updateSettings is given

StartDay == 29        \* first day of the run: 2025-01-30
StartMinute == 720    \* time of day (UTC) of the first clock reading
TzOffsets == {-300, 0, 330}

NoDate == <<>>
DefaultLimit == 3
MinutesPerDay == 1440
MaxStreak == 3         \* the system clock is not set back once a streak is this long

----------------------------------------------------------------------------
(* Calendar *)

IsLeap(y) == (y % 4 = 0 /\ y % 100 # 0) \/ y % 400 = 0

DaysInMonth(y, m) ==
    IF m = 2 THEN (IF IsLeap(y) THEN 29 ELSE 28)
    ELSE IF m \in {4, 6, 9, 11} THEN 30 ELSE 31

RECURSIVE CivilFrom(_, _, _)
\* the date n days after the first day of month m of year y
CivilFrom(n, y, m) ==
    IF n < DaysInMonth(y, m) THEN <<y, m, n + 1>>
    ELSE IF m = 12 THEN CivilFrom(n - DaysInMonth(y, m), y + 1, 1)
    ELSE CivilFrom(n - DaysInMonth(y, m), y, m + 1)

\* calendar date of day number n (day 0 is 2025-01-01)
CivilFromDays(n) == CivilFrom(n, 2025, 1)

RECURSIVE DaysBefore(_, _)
\* days from 2025-01-01 to the first day of month m of year y
DaysBefore(y, m) ==
    IF y = 2025 /\ m = 1 THEN 0
    ELSE IF m = 1 THEN DaysBefore(y - 1, 12) + DaysInMonth(y - 1, 12)
    ELSE DaysBefore(y, m - 1) + DaysInMonth(y, m - 1)

DaysFromCivil(s) == DaysBefore(s[1], s[2]) + s[3] - 1

----------------------------------------------------------------------------
(* Date helpers *)

\* local calendar day number and local date of a time value
LocalDay(t) == (t + tzOffset) \div MinutesPerDay
LocalCivil(t) == CivilFromDays(LocalDay(t))

\* Date.prototype.getDate
GetDate(t) == LocalCivil(t)[3]

\* Date.prototype.setDate: day n of the local month of t, same local time of
\* day; n outside the month rolls over into the neighbouring months
SetDate(t, n) ==
    LET c == LocalCivil(t)
        first == DaysBefore(c[1], c[2])
    IN  t + (first + n - 1 - LocalDay(t)) * MinutesPerDay

\* new Date("YYYY-MM-DD"): midnight UTC of that date
ParseDate(s) == DaysFromCivil(s) * MinutesPerDay

formatDate(t) == LocalCivil(t)

getCurrentMonth == SubSeq(LocalCivil(clock), 1, 2)

\* String.prototype.startsWith of a date string with a month prefix
StartsWith(d, prefix) == Len(d) >= Len(prefix) /\ SubSeq(d, 1, Len(prefix)) = prefix

\* Array.prototype.includes / indexOf (0 when absent, else first position)
Includes(seq, x) == \E i \in DOMAIN seq : seq[i] = x

IndexOf(seq, x) ==
    IF Includes(seq, x)
    THEN CHOOSE i \in DOMAIN seq : seq[i] = x /\ \A j \in 1..(i - 1) : seq[j] # x
    ELSE 0

\* Array.prototype.splice(idx, 1)
RemoveAt(seq, i) == SubSeq(seq, 1, i - 1) \o SubSeq(seq, i + 1, Len(seq))

----------------------------------------------------------------------------
(* Settings / Day Off *)

getSettings == settings

\* variant: every record counts, whatever its month
usedThisMonthAll == Len(getSettings.dayOffRecords)

usedThisMonth ==
    Len(SelectSeq(getSettings.dayOffRecords, LAMBDA d : StartsWith(d, getCurrentMonth)))

\* variant: the quota comparison lets one day too many through
canTakeDayOffInclusive ==
    IF Includes(getSettings.dayOffRecords, formatDate(clock)) THEN FALSE
    ELSE usedThisMonth <= getSettings.dayOffLimit

canTakeDayOff ==
    IF Includes(getSettings.dayOffRecords, formatDate(clock)) THEN FALSE
    ELSE usedThisMonth < getSettings.dayOffLimit

isDayOff(dateStr) == Includes(getSettings.dayOffRecords, dateStr)

----------------------------------------------------------------------------
(* The record of the last call *)

NoHabit == [streak |-> 0, lastCompletedDate |-> NoDate]

\* prevOp is the operation of the call before this one and prevRecordsBefore
\* the ledger that call found; writeFailed tells that
\* setData took its catch branch (the alert) during the call; name is the name
\* argument of addRoutine and updateRoutine
Call(op, routineId, habitIndex, ret, habitBefore, recordsBefore) ==
    [op |-> op, routineId |-> routineId, habitIndex |-> habitIndex, ret |-> ret,
     habitBefore |-> habitBefore, recordsBefore |-> recordsBefore,
     prevOp |-> last.op, prevRecordsBefore |-> last.recordsBefore,
     sameDay |-> TRUE, writeFailed |-> FALSE, name |-> ""]

LedgerCall(op, ret) == Call(op, 0, 0, ret, NoHabit, settings.dayOffRecords)

Bool(b) == IF b THEN "true" ELSE "false"

----------------------------------------------------------------------------
(* LocalStorage GET/SET *)

ROUTINES_KEY == "routines"
SETTINGS_KEY == "settings"
COMPLETIONS_KEY == "completions"

\* what one localStorage.setItem can do: TRUE stores the item, FALSE throws,
\* and setData catches the exception and returns
SetItemOutcomes == IF setItemFails THEN {TRUE, FALSE} ELSE {TRUE}

\* setData(key, value): the keys held after the attempt
setDataKeys(keys, key, ok) == IF ok THEN keys \cup {key} ELSE keys

----------------------------------------------------------------------------
(* Settings / Day Off: the operations *)

CanTakeDayOff ==
    /\ last' = LedgerCall("canTakeDayOff", Bool(canTakeDayOff))
    /\ UNCHANGED <<store, clock, tzOffset, idCounter, stored, setItemFails, lastUsageDate>>

\* variant: the push is missing
takeDayOffRecordsNoPush(todayStr) == getSettings.dayOffRecords

\* variant: the records are replaced by today's date alone
takeDayOffRecordsReplace(todayStr) == <<todayStr>>

takeDayOffRecords(todayStr) == Append(getSettings.dayOffRecords, todayStr)

TakeDayOff ==
    LET todayStr == formatDate(clock) IN
    /\ IF Includes(getSettings.dayOffRecords, todayStr)
       THEN /\ last' = LedgerCall("takeDayOff", "false")
            /\ UNCHANGED <<settings, stored>>
       ELSE \E ok \in SetItemOutcomes :
            /\ settings' = IF ok
                  THEN [getSettings EXCEPT !.dayOffRecords = takeDayOffRecords(todayStr)]
                  ELSE settings
            /\ stored' = setDataKeys(stored, SETTINGS_KEY, ok)
            /\ last' = [LedgerCall("takeDayOff", "true") EXCEPT !.writeFailed = ~ok]
    /\ UNCHANGED <<routines, completions, clock, tzOffset, idCounter, setItemFails, lastUsageDate>>

\* variant: splice(0, 1), the first record goes instead of today's
undoDayOffRecordsFirst(idx) == RemoveAt(getSettings.dayOffRecords, 1)

\* variant: slice for splice, the array is left as it was
undoDayOffRecordsSlice(idx) == getSettings.dayOffRecords

undoDayOffRecords(idx) == RemoveAt(getSettings.dayOffRecords, idx)

UndoDayOff ==
    LET todayStr == formatDate(clock)
        idx == IndexOf(getSettings.dayOffRecords, todayStr)
    IN
    /\ IF idx >= 1
       THEN \E ok \in SetItemOutcomes :
            /\ settings' = IF ok
                  THEN [getSettings EXCEPT !.dayOffRecords = undoDayOffRecords(idx)]
                  ELSE settings
            /\ stored' = setDataKeys(stored, SETTINGS_KEY, ok)
            /\ last' = [LedgerCall("undoDayOff", "true") EXCEPT !.writeFailed = ~ok]
       ELSE /\ last' = LedgerCall("undoDayOff", "false")
            /\ UNCHANGED <<settings, stored>>
    /\ UNCHANGED <<routines, completions, clock, tzOffset, idCounter, setItemFails, lastUsageDate>>

\* variant: the records beyond the new limit are dropped
updatedSettingsTrim(newLimit) ==
    [dayOffLimit |-> newLimit,
     dayOffRecords |-> SubSeq(getSettings.dayOffRecords, 1,
                              IF Len(getSettings.dayOffRecords) < newLimit
                              THEN Len(getSettings.dayOffRecords) ELSE newLimit)]

\* Object.assign(settings, {dayOffLimit: newLimit})
updatedSettings(newLimit) == [getSettings EXCEPT !.dayOffLimit = newLimit]

\* the limit form of the statistics page: updateSettings({dayOffLimit: newLimit})
UpdateSettings ==
    \E newLimit \in 0..MaxLimit, ok \in SetItemOutcomes :
        /\ settings' = IF ok THEN updatedSettings(newLimit) ELSE settings
        /\ stored' = setDataKeys(stored, SETTINGS_KEY, ok)
        /\ last' = LedgerCall("updateSettings", "undefined")
        /\ UNCHANGED <<routines, completions, clock, tzOffset, idCounter, setItemFails, lastUsageDate>>

----------------------------------------------------------------------------
(* Purge Old Day Off Records, and the initialization that calls it *)

\* variant: nothing is filtered out
purgedRecordsKeepAll == getSettings.dayOffRecords

\* variant: the filter compares the year only
purgedRecordsByYear ==
    SelectSeq(getSettings.dayOffRecords,
              LAMBDA d : StartsWith(d, SubSeq(getCurrentMonth, 1, 1)))

\* settings.dayOffRecords.filter(d => d.startsWith(currentMonth))
purgedRecords ==
    SelectSeq(getSettings.dayOffRecords, LAMBDA d : StartsWith(d, getCurrentMonth))

\* the same filter on records not yet stored
currentMonthOnly(records) ==
    SelectSeq(records, LAMBDA d : StartsWith(d, getCurrentMonth))

purgeOldDayOffRecords ==
    \E ok \in SetItemOutcomes :
        /\ settings' = IF ok THEN [getSettings EXCEPT !.dayOffRecords = purgedRecords]
                       ELSE settings
        /\ stored' = setDataKeys(stored, SETTINGS_KEY, ok)

PurgeOldDayOffRecords ==
    /\ purgeOldDayOffRecords
    /\ last' = LedgerCall("purgeOldDayOffRecords", "undefined")
    /\ UNCHANGED <<routines, completions, clock, tzOffset, idCounter, setItemFails, lastUsageDate>>

\* whether const DAILY_QUOTES (line 291) has been evaluated when the call
\* initAppData() of line 49 runs: it has not, the script runs top to bottom,
\* and the exception ends the script before it gets there
dailyQuotesInitialized == FALSE

\* the script load: initAppData() of line 49.  Reading DAILY_QUOTES for the
\* fourth getData throws a ReferenceError before the first setData
InitAppData ==
    IF dailyQuotesInitialized
    THEN /\ \E okR \in SetItemOutcomes, okS \in SetItemOutcomes, okC \in SetItemOutcomes,
              okP \in SetItemOutcomes :
              /\ settings' = IF okP THEN [getSettings EXCEPT !.dayOffRecords = purgedRecords]
                             ELSE settings
              /\ stored' = stored \cup {k \in {ROUTINES_KEY, SETTINGS_KEY, COMPLETIONS_KEY} :
                                             \/ k = ROUTINES_KEY /\ okR
                                             \/ k = SETTINGS_KEY /\ (okS \/ okP)
                                             \/ k = COMPLETIONS_KEY /\ okC}
         /\ last' = LedgerCall("initAppData", "undefined")
         /\ UNCHANGED <<routines, completions, clock, tzOffset, idCounter, setItemFails, lastUsageDate>>
    ELSE /\ last' = LedgerCall("initAppData", "ReferenceError")
         /\ UNCHANGED <<store, clock, tzOffset, idCounter, stored, setItemFails, lastUsageDate>>

----------------------------------------------------------------------------
(* autoMarkMissedDaysAsOff and the initialization of the earlier snapshot *)

\* variant: each missed day is pushed without the includes test
RECURSIVE markMissedDaysAlways(_, _, _)
markMissedDaysAlways(records, tempDate, todayDateObj) ==
    IF tempDate < todayDateObj
    THEN markMissedDaysAlways(Append(records, formatDate(tempDate)),
                              SetDate(tempDate, GetDate(tempDate) + 1), todayDateObj)
    ELSE records

\* the while loop: tempDate runs a day at a time up to todayDateObj
RECURSIVE markMissedDays(_, _, _)
markMissedDays(records, tempDate, todayDateObj) ==
    IF tempDate < todayDateObj
    THEN markMissedDays(IF Includes(records, formatDate(tempDate)) THEN records
                        ELSE Append(records, formatDate(tempDate)),
                        SetDate(tempDate, GetDate(tempDate) + 1), todayDateObj)
    ELSE records

\* dayOffRecords as autoMarkMissedDaysAsOff leaves them in its settings object
autoMarkedRecords(lastUsageStr, todayStr) ==
    IF lastUsageStr = NoDate \/ lastUsageStr = todayStr
    THEN getSettings.dayOffRecords
    ELSE markMissedDays(getSettings.dayOffRecords,
                        SetDate(ParseDate(lastUsageStr), GetDate(ParseDate(lastUsageStr)) + 1),
                        ParseDate(todayStr))

\* a page load of the earlier snapshot: the three setData calls, then
\* autoMarkMissedDaysAsOff, then purgeOldDayOffRecords.  The usage date is
\* written with localStorage.setItem outside setData: a failure there throws
\* and ends the script before the purge
InitAppDataAutoMark ==
    \E okR \in SetItemOutcomes, okS \in SetItemOutcomes, okC \in SetItemOutcomes,
       okMark \in SetItemOutcomes, okUsage \in SetItemOutcomes, okPurge \in SetItemOutcomes :
        LET todayStr == formatDate(clock)
            marks == lastUsageDate # NoDate /\ lastUsageDate # todayStr
            marked == IF marks /\ okMark
                      THEN autoMarkedRecords(lastUsageDate, todayStr)
                      ELSE getSettings.dayOffRecords
            purged == IF okUsage /\ okPurge THEN currentMonthOnly(marked) ELSE marked
        IN
        /\ settings' = [getSettings EXCEPT !.dayOffRecords = purged]
        /\ lastUsageDate' = IF okUsage THEN todayStr ELSE lastUsageDate
        /\ stored' = stored \cup {k \in {ROUTINES_KEY, SETTINGS_KEY, COMPLETIONS_KEY} :
                                     \/ k = ROUTINES_KEY /\ okR
                                     \/ k = SETTINGS_KEY
                                        /\ (okS \/ (marks /\ okMark) \/ (okUsage /\ okPurge))
                                     \/ k = COMPLETIONS_KEY /\ okC}
        /\ last' = LedgerCall("initAppData", IF okUsage THEN "undefined" ELSE "QuotaExceededError")
        /\ UNCHANGED <<routines, completions, clock, tzOffset, idCounter, setItemFails>>

----------------------------------------------------------------------------
(* Routines *)

Names == {"Morning", "morning", "Evening"}

\* String.prototype.toLowerCase on the names in use
toLowerCase(name) ==
    IF name = "Morning" THEN "morning"
    ELSE IF name = "Evening" THEN "evening"
    ELSE name

\* the habit rows the manage form submits: {title, time}
Water == [title |-> "Drink Water", time |-> "07:00"]
HabitRows == {<<Water>>}

\* ids are "routine-<timestamp>-<rand>"; the n-th id handed out is n
generateRoutineId == idCounter + 1

\* the ids a caller passes: those addRoutine can have given, and one more
RoutineIds == 1..(MaxRoutines + 1)

getAllRoutines == routines

\* variant: the first routine stands in when no routine has the id
FindIndexByIdFirst(rs, routineId) ==
    IF \E i \in DOMAIN rs : rs[i].id = routineId
    THEN CHOOSE i \in DOMAIN rs :
             rs[i].id = routineId /\ \A j \in 1..(i - 1) : rs[j].id # routineId
    ELSE IF rs # <<>> THEN 1 ELSE 0

\* Array.prototype.find / findIndex by id (0 when no routine has the id)
FindIndexById(rs, routineId) ==
    IF \E i \in DOMAIN rs : rs[i].id = routineId
    THEN CHOOSE i \in DOMAIN rs :
             rs[i].id = routineId /\ \A j \in 1..(i - 1) : rs[j].id # routineId
    ELSE 0

newHabit(h) == [title |-> h.title, time |-> h.time, streak |-> 0, lastCompletedDate |-> NoDate]

\* variant: the duplicate check compares the names as typed
isDuplicateNameExact(name) ==
    \E i \in DOMAIN getAllRoutines : getAllRoutines[i].name = name

\* routines.find(r => r.name.toLowerCase() === name.toLowerCase())
isDuplicateName(name) ==
    \E i \in DOMAIN getAllRoutines :
        toLowerCase(getAllRoutines[i].name) = toLowerCase(name)

\* the collection with the new routine pushed
addedRoutines(name, habits) ==
    Append(getAllRoutines,
           [id |-> generateRoutineId, name |-> name,
            habits |-> [i \in DOMAIN habits |-> newHabit(habits[i])]])

AddRoutine ==
    \E name \in Names, habits \in HabitRows :
        /\ IF isDuplicateName(name)
           THEN /\ last' = [Call("addRoutine", 0, 0, "false", NoHabit, <<>>)
                                EXCEPT !.name = name]
                /\ UNCHANGED <<routines, idCounter, stored>>
           ELSE \E ok \in SetItemOutcomes :
                /\ idCounter < MaxRoutines
                /\ routines' = IF ok THEN addedRoutines(name, habits) ELSE routines
                /\ stored' = setDataKeys(stored, ROUTINES_KEY, ok)
                /\ idCounter' = idCounter + 1
                /\ last' = [Call("addRoutine", generateRoutineId, 0, "true", NoHabit, <<>>)
                                EXCEPT !.writeFailed = ~ok, !.name = name]
        /\ UNCHANGED <<settings, completions, clock, tzOffset, setItemFails, lastUsageDate>>

\* variant: the edit carries the name alone, the habits stay as they are
updatedRoutinesKeepHabits(idx, name, habits) ==
    [getAllRoutines EXCEPT ![idx].name = name]

\* routines[idx] = { ...routines[idx], ...updatedObj } with the object the form
\* builds: the name and the habit rows, each with streak 0 and no date
updatedRoutines(idx, name, habits) ==
    [getAllRoutines EXCEPT ![idx] =
        [id |-> @.id, name |-> name,
         habits |-> [i \in DOMAIN habits |-> newHabit(habits[i])]]]

\* variant: the routine's own name counts as a conflict
hasNameConflictOwn(idx, name) == isDuplicateName(name)

\* variant: the duplicate check on a changed name is missing
hasNameConflictNever(idx, name) == FALSE

\* the name changes (ignoring case) and another routine has it
hasNameConflict(idx, name) ==
    /\ toLowerCase(name) # toLowerCase(getAllRoutines[idx].name)
    /\ isDuplicateName(name)

UpdateRoutine ==
    \E routineId \in RoutineIds, name \in Names, habits \in HabitRows :
        LET idx == FindIndexById(getAllRoutines, routineId) IN
        /\ IF idx = 0
           THEN /\ last' = [Call("updateRoutine", routineId, 0, "false", NoHabit, <<>>)
                                EXCEPT !.name = name]
                /\ UNCHANGED <<routines, stored>>
           ELSE IF hasNameConflict(idx, name)
           THEN /\ last' = [Call("updateRoutine", routineId, 0, "false", NoHabit, <<>>)
                                EXCEPT !.name = name]
                /\ UNCHANGED <<routines, stored>>
           ELSE \E ok \in SetItemOutcomes :
                /\ routines' = IF ok THEN updatedRoutines(idx, name, habits) ELSE routines
                /\ stored' = setDataKeys(stored, ROUTINES_KEY, ok)
                /\ last' = [Call("updateRoutine", routineId, 0, "true", NoHabit, <<>>)
                                EXCEPT !.writeFailed = ~ok, !.name = name]
        /\ UNCHANGED <<settings, completions, clock, tzOffset, idCounter, setItemFails, lastUsageDate>>

\* routines.filter(r => r.id !== routineId)
deletedRoutines(routineId) ==
    SelectSeq(getAllRoutines, LAMBDA r : r.id # routineId)

DeleteRoutine ==
    \E routineId \in RoutineIds, ok \in SetItemOutcomes :
        /\ routines' = IF ok THEN deletedRoutines(routineId) ELSE routines
        /\ stored' = setDataKeys(stored, ROUTINES_KEY, ok)
        /\ last' = [Call("deleteRoutine", routineId, 0, "undefined", NoHabit, <<>>)
                        EXCEPT !.writeFailed = ~ok]
        /\ UNCHANGED <<settings, completions, clock, tzOffset, idCounter, setItemFails, lastUsageDate>>

----------------------------------------------------------------------------
(* Habit Completion & Streak *)

\* diffDays of completeHabit
diffDays(lastCompletedDate, todayStr) ==
    (ParseDate(todayStr) - ParseDate(lastCompletedDate)) \div MinutesPerDay

\* the date string the loop of completeHabit checks in round i
checkStr(lastCompletedDate, i) ==
    LET lastDone == ParseDate(lastCompletedDate) IN
    formatDate(SetDate(lastDone, GetDate(lastDone) + i))

isAllDayOff(lastCompletedDate, todayStr) ==
    \A i \in 1..(diffDays(lastCompletedDate, todayStr) - 1) :
        isDayOff(checkStr(lastCompletedDate, i))

\* variant: the consecutive-day branch is missing, a gap of one day restarts
newStreakNoConsecutive(habit, todayStr) ==
    IF habit.lastCompletedDate = NoDate THEN 1
    ELSE IF diffDays(habit.lastCompletedDate, todayStr) >= 1
         THEN (IF diffDays(habit.lastCompletedDate, todayStr) > 1
                  /\ isAllDayOff(habit.lastCompletedDate, todayStr)
               THEN habit.streak + 1 ELSE 1)
    ELSE habit.streak

\* variant: a last completion after today restarts the streak
newStreakResetBackward(habit, todayStr) ==
    IF habit.lastCompletedDate = NoDate THEN 1
    ELSE IF diffDays(habit.lastCompletedDate, todayStr) = 1 THEN habit.streak + 1
    ELSE IF diffDays(habit.lastCompletedDate, todayStr) > 1
         THEN (IF isAllDayOff(habit.lastCompletedDate, todayStr)
               THEN habit.streak + 1 ELSE 1)
    ELSE 1

\* the streak completeHabit stores for a habit not yet completed today
newStreak(habit, todayStr) ==
    IF habit.lastCompletedDate = NoDate THEN 1
    ELSE IF diffDays(habit.lastCompletedDate, todayStr) = 1 THEN habit.streak + 1
    ELSE IF diffDays(habit.lastCompletedDate, todayStr) > 1
         THEN (IF isAllDayOff(habit.lastCompletedDate, todayStr)
               THEN habit.streak + 1 ELSE 1)
    ELSE habit.streak

\* variant: every call counts, whatever the date of the last completion
completedHabitEveryCall(habit, todayStr) ==
    [habit EXCEPT !.streak = IF habit.lastCompletedDate = NoDate THEN 1 ELSE habit.streak + 1,
                  !.lastCompletedDate = todayStr]

\* the habit as completeHabit leaves it: untouched when already done today
completedHabit(habit, todayStr) ==
    IF habit.lastCompletedDate = todayStr THEN habit
    ELSE [habit EXCEPT !.streak = newStreak(habit, todayStr),
                       !.lastCompletedDate = todayStr]

Pair(routineId, habitIndex) == [routineId |-> routineId, habitIndex |-> habitIndex]

\* completions[dateStr] || []
getCompletionsByDate(dateStr) ==
    IF dateStr \in DOMAIN completions THEN completions[dateStr] ELSE <<>>

\* variant: today's entry is created but the pair is not pushed
logCompletionNoPush(todayStr, routineId, habitIndex) ==
    [d \in DOMAIN completions \cup {todayStr} |->
        IF d = todayStr THEN getCompletionsByDate(todayStr) ELSE completions[d]]

\* variant: the log is rebuilt with today's entry alone
logCompletionTodayOnly(todayStr, routineId, habitIndex) ==
    [d \in {todayStr} |->
        IF Includes(getCompletionsByDate(todayStr), Pair(routineId, habitIndex))
        THEN getCompletionsByDate(todayStr)
        ELSE Append(getCompletionsByDate(todayStr), Pair(routineId, habitIndex))]

\* variant: the pairs of routines that are gone are dropped from every date
logCompletionPruned(todayStr, routineId, habitIndex) ==
    [d \in DOMAIN completions \cup {todayStr} |->
        SelectSeq(IF d # todayStr THEN completions[d]
                  ELSE IF Includes(getCompletionsByDate(todayStr), Pair(routineId, habitIndex))
                  THEN getCompletionsByDate(todayStr)
                  ELSE Append(getCompletionsByDate(todayStr), Pair(routineId, habitIndex)),
                  LAMBDA c : \E i \in DOMAIN getAllRoutines : getAllRoutines[i].id = c.routineId)]

\* variant: the pair is pushed whether or not it is already there
logCompletionAlways(todayStr, routineId, habitIndex) ==
    [d \in DOMAIN completions \cup {todayStr} |->
        IF d = todayStr
        THEN Append(getCompletionsByDate(todayStr), Pair(routineId, habitIndex))
        ELSE completions[d]]

\* the completion log after completeHabit has logged the pair
logCompletion(todayStr, routineId, habitIndex) ==
    LET today == getCompletionsByDate(todayStr)
        alreadyLogged == Includes(today, Pair(routineId, habitIndex))
    IN  [d \in DOMAIN completions \cup {todayStr} |->
            IF d = todayStr
            THEN (IF alreadyLogged THEN today
                  ELSE Append(today, Pair(routineId, habitIndex)))
            ELSE completions[d]]

\* index 0 is the habit of a routine, index 1 is past the end
HabitIndexes == {0, 1}

\* habit indexes are 0-based in the source and in the log
CompleteHabit ==
    \E routineId \in RoutineIds, habitIndex \in HabitIndexes :
        LET r == FindIndexById(getAllRoutines, routineId)
            todayStr == formatDate(clock)
        IN
        /\ IF r = 0
           THEN /\ last' = Call("completeHabit", routineId, habitIndex, "undefined", NoHabit, <<>>)
                /\ UNCHANGED <<routines, completions, stored>>
           ELSE IF habitIndex + 1 \notin DOMAIN getAllRoutines[r].habits
           THEN \* habit is undefined: reading habit.lastCompletedDate throws
                /\ last' = Call("completeHabit", routineId, habitIndex, "TypeError", NoHabit, <<>>)
                /\ UNCHANGED <<routines, completions, stored>>
           ELSE LET habit == getAllRoutines[r].habits[habitIndex + 1]
                    before == [streak |-> habit.streak,
                               lastCompletedDate |-> habit.lastCompletedDate]
                IN
                /\ last' = Call("completeHabit", routineId, habitIndex, "undefined", before, <<>>)
                /\ IF habit.lastCompletedDate = todayStr
                   THEN /\ routines' = [getAllRoutines EXCEPT ![r].habits[habitIndex + 1] =
                                            completedHabit(habit, todayStr)]
                        /\ UNCHANGED <<completions, stored>>
                   ELSE \E okRoutines \in SetItemOutcomes, okCompletions \in SetItemOutcomes :
                        /\ routines' = IF okRoutines
                              THEN [getAllRoutines EXCEPT ![r].habits[habitIndex + 1] =
                                        completedHabit(habit, todayStr)]
                              ELSE routines
                        /\ completions' = IF okCompletions
                              THEN logCompletion(todayStr, routineId, habitIndex)
                              ELSE completions
                        /\ stored' = setDataKeys(setDataKeys(stored, ROUTINES_KEY, okRoutines),
                                                 COMPLETIONS_KEY, okCompletions)
        /\ UNCHANGED <<settings, clock, tzOffset, idCounter, setItemFails, lastUsageDate>>

----------------------------------------------------------------------------
(* Uncomplete Habit: the function of the later snapshot *)

\* variant: the pair stays in today's list
uncompletedLogNoFilter(todayStr, routineId, habitIndex) == completions

\* completions[todayStr].filter(c => !(c.routineId === routineId && ...))
uncompletedLog(todayStr, routineId, habitIndex) ==
    [completions EXCEPT ![todayStr] =
        SelectSeq(@, LAMBDA c : ~(c.routineId = routineId /\ c.habitIndex = habitIndex))]

\* variant: the date is cleared, the streak is kept
uncompletedHabitKeepStreak(habit, todayStr, sameDay) ==
    IF sameDay /\ habit.lastCompletedDate = todayStr
    THEN [habit EXCEPT !.lastCompletedDate = NoDate]
    ELSE habit

\* variant: the streak steps back, the date stays
uncompletedHabitKeepDate(habit, todayStr, sameDay) ==
    IF sameDay /\ habit.lastCompletedDate = todayStr
    THEN [habit EXCEPT !.streak = IF habit.streak > 0 THEN habit.streak - 1 ELSE 0]
    ELSE habit

\* variant: the flag is not consulted
uncompletedHabitAnyFlag(habit, todayStr, sameDay) ==
    IF habit.lastCompletedDate = todayStr
    THEN [habit EXCEPT !.lastCompletedDate = NoDate,
                       !.streak = IF habit.streak > 0 THEN habit.streak - 1 ELSE 0]
    ELSE habit

\* the habit after the revert of lines 269-274
uncompletedHabit(habit, todayStr, sameDay) ==
    IF sameDay /\ habit.lastCompletedDate = todayStr
    THEN [habit EXCEPT !.lastCompletedDate = NoDate,
                       !.streak = IF habit.streak > 0 THEN habit.streak - 1 ELSE 0]
    ELSE habit

UncompleteHabit ==
    \E routineId \in RoutineIds, habitIndex \in HabitIndexes, sameDay \in BOOLEAN :
        LET r == FindIndexById(getAllRoutines, routineId)
            todayStr == formatDate(clock)
            call(ret, before) ==
                [Call("uncompleteHabit", routineId, habitIndex, ret, before, <<>>)
                    EXCEPT !.sameDay = sameDay]
        IN
        /\ IF r = 0
           THEN /\ last' = call("undefined", NoHabit)
                /\ UNCHANGED <<routines, completions, stored>>
           ELSE \E okCompletions \in SetItemOutcomes, okRoutines \in SetItemOutcomes :
                LET hasHabit == habitIndex + 1 \in DOMAIN getAllRoutines[r].habits
                    hasToday == todayStr \in DOMAIN completions
                    \* habit is undefined: sameDay && habit.lastCompletedDate throws
                    throws == sameDay /\ ~hasHabit
                    wroteCompletions == hasToday /\ okCompletions
                    wroteRoutines == ~throws /\ okRoutines
                IN
                /\ completions' = IF wroteCompletions
                                  THEN uncompletedLog(todayStr, routineId, habitIndex)
                                  ELSE completions
                /\ routines' = IF wroteRoutines /\ hasHabit
                               THEN [getAllRoutines EXCEPT ![r].habits[habitIndex + 1] =
                                        uncompletedHabit(@, todayStr, sameDay)]
                               ELSE routines
                /\ stored' = setDataKeys(setDataKeys(stored, COMPLETIONS_KEY, wroteCompletions),
                                         ROUTINES_KEY, wroteRoutines)
                /\ last' = call(IF throws THEN "TypeError" ELSE "undefined",
                                IF hasHabit
                                THEN [streak |-> getAllRoutines[r].habits[habitIndex + 1].streak,
                                      lastCompletedDate |->
                                          getAllRoutines[r].habits[habitIndex + 1].lastCompletedDate]
                                ELSE NoHabit)
        /\ UNCHANGED <<settings, clock, tzOffset, idCounter, setItemFails, lastUsageDate>>

----------------------------------------------------------------------------
(* The clock *)

AdvanceDay ==
    /\ LocalDay(clock) < StartDay + MaxDays
    /\ clock' = clock + MinutesPerDay
    /\ last' = Call("advanceDay", 0, 0, "undefined", NoHabit, <<>>)
    /\ UNCHANGED <<store, tzOffset, idCounter, stored, setItemFails, lastUsageDate>>

\* the user sets the system clock back by a day: new Date() reads it
ClockBack ==
    /\ LocalDay(clock) > StartDay
    /\ \A r \in DOMAIN routines : \A h \in DOMAIN routines[r].habits :
          routines[r].habits[h].streak < MaxStreak
    /\ clock' = clock - MinutesPerDay
    /\ last' = Call("clockBack", 0, 0, "undefined", NoHabit, <<>>)
    /\ UNCHANGED <<store, tzOffset, idCounter, stored, setItemFails, lastUsageDate>>

----------------------------------------------------------------------------
(* Specifications *)

\* first run: no key is stored, getData returns the defaults
Init ==
    /\ routines = <<>>
    /\ settings = [dayOffLimit |-> DefaultLimit, dayOffRecords |-> <<>>]
    /\ completions = <<>>
    /\ clock = StartDay * MinutesPerDay + StartMinute
    /\ tzOffset \in TzOffsets
    /\ idCounter = 0
    /\ last = [op |-> "load", routineId |-> 0, habitIndex |-> 0, ret |-> "undefined",
               habitBefore |-> NoHabit, recordsBefore |-> <<>>, prevOp |-> "load",
               prevRecordsBefore |-> <<>>,
               sameDay |-> TRUE, writeFailed |-> FALSE, name |-> ""]
    /\ stored = {}
    /\ setItemFails = FALSE
    /\ lastUsageDate = NoDate

Next ==
    \/ InitAppData
    \/ AddRoutine
    \/ UpdateRoutine
    \/ DeleteRoutine
    \/ CompleteHabit
    \/ CanTakeDayOff
    \/ TakeDayOff
    \/ UndoDayOff
    \/ UpdateSettings
    \/ AdvanceDay

Spec == Init /\ [][Next]_vars

\* the streak engine with the ledger it consults, from the store as the first
\* addRoutine("Morning", [{title, time}]) of a first run leaves it
InitStreak ==
    /\ routines = <<[id |-> 1, name |-> "Morning", habits |-> <<newHabit(Water)>>]>>
    /\ settings = [dayOffLimit |-> DefaultLimit, dayOffRecords |-> <<>>]
    /\ completions = <<>>
    /\ clock = StartDay * MinutesPerDay + StartMinute
    /\ tzOffset \in TzOffsets
    /\ idCounter = 1
    /\ last = [op |-> "addRoutine", routineId |-> 1, habitIndex |-> 0, ret |-> "true",
               habitBefore |-> NoHabit, recordsBefore |-> <<>>, prevOp |-> "load",
               prevRecordsBefore |-> <<>>,
               sameDay |-> TRUE, writeFailed |-> FALSE, name |-> "Morning"]
    /\ stored = {ROUTINES_KEY}
    /\ setItemFails = FALSE
    /\ lastUsageDate = NoDate

NextStreak ==
    \/ CompleteHabit
    \/ TakeDayOff
    \/ UndoDayOff
    \/ AdvanceDay

SpecStreak == InitStreak /\ [][NextStreak]_vars

\* the streak engine with uncompleteHabit (the later snapshot)
NextHabit ==
    \/ CompleteHabit
    \/ UncompleteHabit
    \/ TakeDayOff
    \/ UndoDayOff
    \/ AdvanceDay

\* InitStreak in the zone of UTC, where the dates of the gap loop do not slip
InitHabit == InitStreak /\ tzOffset = 0

SpecHabit == InitHabit /\ [][NextHabit]_vars

\* completing and uncompleting over the days, the ledger left alone
NextUncomplete ==
    \/ CompleteHabit
    \/ UncompleteHabit
    \/ AdvanceDay

SpecUncomplete == InitStreak /\ [][NextUncomplete]_vars

\* the store when localStorage.setItem can throw (quota, private mode): one
\* routine is there, as in InitStreak
InitFailing ==
    /\ routines = <<[id |-> 1, name |-> "Morning", habits |-> <<newHabit(Water)>>]>>
    /\ settings = [dayOffLimit |-> DefaultLimit, dayOffRecords |-> <<>>]
    /\ completions = <<>>
    /\ clock = StartDay * MinutesPerDay + StartMinute
    /\ tzOffset \in TzOffsets
    /\ idCounter = 1
    /\ last = [op |-> "addRoutine", routineId |-> 1, habitIndex |-> 0, ret |-> "true",
               habitBefore |-> NoHabit, recordsBefore |-> <<>>, prevOp |-> "load",
               prevRecordsBefore |-> <<>>,
               sameDay |-> TRUE, writeFailed |-> FALSE, name |-> "Morning"]
    /\ stored = {ROUTINES_KEY}
    /\ setItemFails = TRUE
    /\ lastUsageDate = NoDate

\* completions while writes can fail
NextFailingHabit ==
    \/ CompleteHabit
    \/ AdvanceDay

SpecFailingHabit == InitFailing /\ [][NextFailingHabit]_vars

\* the operations that report success, while writes can fail
NextFailingWrites ==
    \/ TakeDayOff
    \/ UndoDayOff
    \/ AddRoutine
    \/ UpdateRoutine
    \/ AdvanceDay

\* a first run while writes can fail
InitFailingWrites ==
    /\ routines = <<>>
    /\ settings = [dayOffLimit |-> DefaultLimit, dayOffRecords |-> <<>>]
    /\ completions = <<>>
    /\ clock = StartDay * MinutesPerDay + StartMinute
    /\ tzOffset \in TzOffsets
    /\ idCounter = 0
    /\ last = [op |-> "load", routineId |-> 0, habitIndex |-> 0, ret |-> "undefined",
               habitBefore |-> NoHabit, recordsBefore |-> <<>>, prevOp |-> "load",
               prevRecordsBefore |-> <<>>,
               sameDay |-> TRUE, writeFailed |-> FALSE, name |-> ""]
    /\ stored = {}
    /\ setItemFails = TRUE
    /\ lastUsageDate = NoDate

SpecFailingWrites == InitFailingWrites /\ [][NextFailingWrites]_vars

\* the routine manager: the form of create-manage.html
NextRoutines ==
    \/ AddRoutine
    \/ UpdateRoutine

SpecRoutines == Init /\ [][NextRoutines]_vars

\* calls with the ids and habit indexes a caller can pass, known or not
NextNotFound ==
    \/ AddRoutine
    \/ DeleteRoutine
    \/ CompleteHabit
    \/ UncompleteHabit

SpecNotFound == InitStreak /\ [][NextNotFound]_vars

\* completing and uncompleting within a day, with the edit form that resets
\* the habits of a routine
NextLog ==
    \/ CompleteHabit
    \/ UncompleteHabit
    \/ UpdateRoutine

SpecLog == InitStreak /\ [][NextLog]_vars

\* the ledger of the earlier snapshot: page loads mark the missed days
NextAutoMark ==
    \/ InitAppDataAutoMark
    \/ TakeDayOff
    \/ UndoDayOff
    \/ UpdateSettings
    \/ PurgeOldDayOffRecords
    \/ AdvanceDay

SpecAutoMark == Init /\ [][NextAutoMark]_vars

\* the streak engine with the ledger and its purge
NextPurgeStreak ==
    \/ CompleteHabit
    \/ TakeDayOff
    \/ UndoDayOff
    \/ PurgeOldDayOffRecords
    \/ AdvanceDay

SpecPurgeStreak == InitStreak /\ [][NextPurgeStreak]_vars

\* the quota over a month boundary, with and without the purge
NextQuota ==
    \/ CanTakeDayOff
    \/ TakeDayOff
    \/ UpdateSettings
    \/ PurgeOldDayOffRecords
    \/ AdvanceDay

SpecQuota == Init /\ [][NextQuota]_vars

\* the checkbox of a habit ticked and unticked over the days, in the zone of UTC
NextCycle ==
    \/ CompleteHabit
    \/ UncompleteHabit
    \/ AdvanceDay

SpecCycle == InitHabit /\ [][NextCycle]_vars

\* a caller that asks canTakeDayOff before every takeDayOff
TakeDayOffIfAllowed == canTakeDayOff /\ TakeDayOff

\* updateSettings that never lowers the limit
RaiseLimit == UpdateSettings /\ settings'.dayOffLimit >= settings.dayOffLimit

\* the ledger after updateSettings has stored a limit on a first run
InitLimit ==
    /\ routines = <<>>
    /\ settings \in {[dayOffLimit |-> n, dayOffRecords |-> <<>>] : n \in 0..MaxLimit}
    /\ completions = <<>>
    /\ clock = StartDay * MinutesPerDay + StartMinute
    /\ tzOffset \in TzOffsets
    /\ idCounter = 0
    /\ last = [op |-> "updateSettings", routineId |-> 0, habitIndex |-> 0,
               ret |-> "undefined", habitBefore |-> NoHabit, recordsBefore |-> <<>>,
               prevOp |-> "load",
               prevRecordsBefore |-> <<>>,
               sameDay |-> TRUE, writeFailed |-> FALSE, name |-> ""]
    /\ stored = {SETTINGS_KEY}
    /\ setItemFails = FALSE
    /\ lastUsageDate = NoDate

NextGuarded ==
    \/ TakeDayOffIfAllowed
    \/ UndoDayOff
    \/ RaiseLimit
    \/ PurgeOldDayOffRecords
    \/ AdvanceDay

SpecGuarded == InitLimit /\ [][NextGuarded]_vars

\* a second habit row of the form
Stretch == [title |-> "Stretch", time |-> "07:30"]

\* a habit completed once, on the day before the first clock reading
doneYesterday(h) ==
    [newHabit(h) EXCEPT !.streak = 1,
                        !.lastCompletedDate = formatDate(clock - MinutesPerDay)]

\* the morning after addRoutine("Morning", [Water, Stretch]),
\* addRoutine("Evening", [Water]) and a completeHabit for each of the three
\* habits, all on the first day of a first run
InitTwoRoutines ==
    /\ tzOffset \in TzOffsets
    /\ clock = (StartDay + 1) * MinutesPerDay + StartMinute
    /\ routines = <<[id |-> 1, name |-> "Morning",
                     habits |-> <<doneYesterday(Water), doneYesterday(Stretch)>>],
                    [id |-> 2, name |-> "Evening", habits |-> <<doneYesterday(Water)>>]>>
    /\ settings = [dayOffLimit |-> DefaultLimit, dayOffRecords |-> <<>>]
    /\ completions = [d \in {formatDate(clock - MinutesPerDay)} |->
                         <<Pair(1, 0), Pair(1, 1), Pair(2, 0)>>]
    /\ idCounter = 2
    /\ last = [op |-> "advanceDay", routineId |-> 0, habitIndex |-> 0, ret |-> "undefined",
               habitBefore |-> NoHabit, recordsBefore |-> <<>>, prevOp |-> "completeHabit",
               prevRecordsBefore |-> <<>>,
               sameDay |-> TRUE, writeFailed |-> FALSE, name |-> ""]
    /\ stored = {ROUTINES_KEY, COMPLETIONS_KEY}
    /\ setItemFails = FALSE
    /\ lastUsageDate = NoDate

\* the morning after addRoutine("Morning", [Water, Stretch]) and a
\* completeHabit for both habits on the first day of a first run, in the zone
\* of UTC
InitTwoHabits ==
    /\ tzOffset = 0
    /\ clock = (StartDay + 1) * MinutesPerDay + StartMinute
    /\ routines = <<[id |-> 1, name |-> "Morning",
                     habits |-> <<doneYesterday(Water), doneYesterday(Stretch)>>]>>
    /\ settings = [dayOffLimit |-> DefaultLimit, dayOffRecords |-> <<>>]
    /\ completions = [d \in {formatDate(clock - MinutesPerDay)} |->
                         <<Pair(1, 0), Pair(1, 1)>>]
    /\ idCounter = 1
    /\ last = [op |-> "advanceDay", routineId |-> 0, habitIndex |-> 0, ret |-> "undefined",
               habitBefore |-> NoHabit, recordsBefore |-> <<>>, prevOp |-> "completeHabit",
               prevRecordsBefore |-> <<>>,
               sameDay |-> TRUE, writeFailed |-> FALSE, name |-> ""]
    /\ stored = {ROUTINES_KEY, COMPLETIONS_KEY}
    /\ setItemFails = FALSE
    /\ lastUsageDate = NoDate

\* routines created, edited and deleted while their habits are completed
NextOrphan ==
    \/ AddRoutine
    \/ UpdateRoutine
    \/ DeleteRoutine
    \/ CompleteHabit

SpecOrphan == InitTwoHabits /\ [][NextOrphan]_vars

\* the habits of two routines ticked and unticked within a day
NextFrame ==
    \/ CompleteHabit
    \/ UncompleteHabit

SpecFrame == InitTwoRoutines /\ [][NextFrame]_vars

\* the routine manager with its delete buttons
NextManage ==
    \/ AddRoutine
    \/ UpdateRoutine
    \/ DeleteRoutine

SpecManage == Init /\ [][NextManage]_vars

\* completions under a clock that can be set back
NextClock ==
    \/ CompleteHabit
    \/ AdvanceDay
    \/ ClockBack

SpecClock == InitStreak /\ [][NextClock]_vars

\* the day-off ledger alone: the statistics page
NextLedger ==
    \/ CanTakeDayOff
    \/ TakeDayOff
    \/ UndoDayOff
    \/ UpdateSettings
    \/ AdvanceDay

SpecLedger == Init /\ [][NextLedger]_vars

\* the ledger with the purge (the function of the later snapshot)
NextPurge ==
    \/ TakeDayOff
    \/ UndoDayOff
    \/ UpdateSettings
    \/ PurgeOldDayOffRecords
    \/ AdvanceDay

SpecPurge == Init /\ [][NextPurge]_vars

\* the ledger with page loads: every load runs the script again
NextLoad ==
    \/ InitAppData
    \/ TakeDayOff
    \/ UndoDayOff
    \/ AdvanceDay

SpecLoad == Init /\ [][NextLoad]_vars

----------------------------------------------------------------------------
(* Vocabulary of the properties *)

Today == formatDate(clock)

HasHabit(rs, routineId, habitIndex) ==
    /\ FindIndexById(rs, routineId) # 0
    /\ habitIndex + 1 \in DOMAIN rs[FindIndexById(rs, routineId)].habits

HabitOf(rs, routineId, habitIndex) ==
    rs[FindIndexById(rs, routineId)].habits[habitIndex + 1]

\* the dates recorded as days off, and how many of them lie in the month of d
DayOffSet == {settings.dayOffRecords[i] : i \in DOMAIN settings.dayOffRecords}

UsedInMonthOf(records, d) ==
    Cardinality({i \in DOMAIN records : records[i][1] = d[1] /\ records[i][2] = d[2]})

\* calendar days from one date to another, and the dates strictly between
CalendarGap(from, to) == DaysFromCivil(to) - DaysFromCivil(from)

DatesBetween(from, to) ==
    {CivilFromDays(n) : n \in (DaysFromCivil(from) + 1)..(DaysFromCivil(to) - 1)}

\* the last call was completeHabit on an existing habit
CompletedHabit ==
    /\ last.op = "completeHabit"
    /\ last.ret = "undefined"
    /\ HasHabit(routines, last.routineId, last.habitIndex)

HabitNow == HabitOf(routines, last.routineId, last.habitIndex)

PairLogged ==
    /\ Today \in DOMAIN completions
    /\ Includes(completions[Today], Pair(last.routineId, last.habitIndex))

----------------------------------------------------------------------------
(* Streak engine *)

\* C1: a completeHabit call that directly follows a completeHabit call for the
\* same routine and habit index on the same date leaves the routines (streak,
\* lastCompletedDate) and the completion log as the first call left them.
C1_CompleteTwiceIdempotent ==
    [][(/\ last.op = "completeHabit"
        /\ last'.op = "completeHabit"
        /\ last'.routineId = last.routineId
        /\ last'.habitIndex = last.habitIndex
        /\ formatDate(clock)' = formatDate(clock))
       => (routines' = routines /\ completions' = completions)]_vars

\* a second call has found the habit already completed today
C1_Witness ==
    /\ CompletedHabit
    /\ last.prevOp = "completeHabit"
    /\ last.habitBefore.lastCompletedDate = Today
    /\ HabitNow.lastCompletedDate = Today
    /\ HabitNow.streak >= 2
    /\ PairLogged

\* C2: a habit last completed more than one calendar day before today, with
\* every date strictly in between a recorded day off, gets streak + 1 and
\* lastCompletedDate = today from completeHabit.
C2_DayOffGapAddsOne ==
    (/\ CompletedHabit
     /\ last.habitBefore.lastCompletedDate # NoDate
     /\ CalendarGap(last.habitBefore.lastCompletedDate, Today) > 1
     /\ DatesBetween(last.habitBefore.lastCompletedDate, Today) \subseteq DayOffSet)
    => (/\ HabitNow.streak = last.habitBefore.streak + 1
        /\ HabitNow.lastCompletedDate = Today)

\* C3: a habit last completed more than one calendar day before today, with a
\* date strictly in between that is no recorded day off, gets streak 1 and
\* lastCompletedDate = today from completeHabit.
C3_BrokenGapResets ==
    (/\ CompletedHabit
     /\ last.habitBefore.lastCompletedDate # NoDate
     /\ CalendarGap(last.habitBefore.lastCompletedDate, Today) > 1
     /\ ~(DatesBetween(last.habitBefore.lastCompletedDate, Today) \subseteq DayOffSet))
    => (/\ HabitNow.streak = 1
        /\ HabitNow.lastCompletedDate = Today)

\* C4: a habit last completed exactly one calendar day before today gets
\* streak + 1 and lastCompletedDate = today from completeHabit.
C4_ConsecutiveDayAddsOne ==
    (/\ CompletedHabit
     /\ last.habitBefore.lastCompletedDate # NoDate
     /\ CalendarGap(last.habitBefore.lastCompletedDate, Today) = 1)
    => (/\ HabitNow.streak = last.habitBefore.streak + 1
        /\ HabitNow.lastCompletedDate = Today)

C4_Witness ==
    /\ CompletedHabit
    /\ last.habitBefore.lastCompletedDate # NoDate
    /\ CalendarGap(last.habitBefore.lastCompletedDate, Today) = 1
    /\ last.habitBefore.streak >= 2
    /\ HabitNow.streak = last.habitBefore.streak + 1

\* C5: a habit with empty lastCompletedDate gets streak 1 and
\* lastCompletedDate = today from completeHabit, and its {routineId,
\* habitIndex} pair is in today's completion log afterwards.
C5_FirstCompletion ==
    (/\ CompletedHabit
     /\ last.habitBefore.lastCompletedDate = NoDate)
    => (/\ HabitNow.streak = 1
        /\ HabitNow.lastCompletedDate = Today
        /\ PairLogged)

C5_Witness ==
    /\ CompletedHabit
    /\ last.habitBefore.lastCompletedDate = NoDate
    /\ HabitNow.streak = 1
    /\ HabitNow.lastCompletedDate = Today
    /\ PairLogged

----------------------------------------------------------------------------
(* Day-off ledger *)

\* C6: with the records of the current month at or above dayOffLimit and today
\* not recorded, canTakeDayOff returns false and takeDayOff returns false and
\* leaves the records as they were.
C6_QuotaBlocksTakeDayOff ==
    (/\ last.op \in {"canTakeDayOff", "takeDayOff"}
     /\ ~Includes(last.recordsBefore, Today)
     /\ UsedInMonthOf(last.recordsBefore, Today) >= settings.dayOffLimit)
    => (/\ last.ret = "false"
        /\ settings.dayOffRecords = last.recordsBefore)

\* C7: canTakeDayOff returns false when today is recorded, else whether fewer
\* records than dayOffLimit carry today's month; it leaves the store alone.
C7_CanTakeDayOff ==
    [][last'.op = "canTakeDayOff"
       => (/\ store' = store
           /\ last'.ret = Bool(IF Today \in DayOffSet THEN FALSE
                               ELSE UsedInMonthOf(settings.dayOffRecords, Today)
                                        < settings.dayOffLimit))]_vars

\* the quota, not today's record, made canTakeDayOff answer false
C7_Witness ==
    /\ last.op = "canTakeDayOff"
    /\ last.ret = "false"
    /\ Today \notin DayOffSet
    /\ settings.dayOffLimit > 0
    /\ UsedInMonthOf(settings.dayOffRecords, Today) < Len(settings.dayOffRecords)

\* C8: takeDayOff with today recorded changes nothing and returns false; else
\* it stores the records with today added, and returns true.
C8_TakeDayOff ==
    [][last'.op = "takeDayOff"
       => IF Today \in DayOffSet
          THEN store' = store /\ last'.ret = "false"
          ELSE /\ last'.ret = "true"
               /\ DayOffSet' = DayOffSet \cup {Today}
               /\ Len(settings'.dayOffRecords) = Len(settings.dayOffRecords) + 1
               /\ settings'.dayOffLimit = settings.dayOffLimit
               /\ routines' = routines /\ completions' = completions]_vars

C8_Witness ==
    /\ last.op = "takeDayOff"
    /\ last.ret = "true"
    /\ last.recordsBefore # <<>>
    /\ Today \in DayOffSet
    /\ Len(settings.dayOffRecords) = Len(last.recordsBefore) + 1

\* C9: with today not recorded, takeDayOff directly followed by undoDayOff on
\* the same date returns true twice and leaves dayOffRecords exactly as they
\* were before the takeDayOff.
C9_TakeUndoRoundTrip ==
    [][(/\ last.op = "takeDayOff"
        /\ ~Includes(last.recordsBefore, Today)
        /\ last'.op = "undoDayOff"
        /\ formatDate(clock)' = formatDate(clock))
       => (/\ last.ret = "true"
           /\ last'.ret = "true"
           /\ settings'.dayOffRecords = last.recordsBefore)]_vars

\* an undoDayOff that directly followed a takeDayOff restored a ledger that
\* holds earlier records
C9_Witness ==
    /\ last.op = "undoDayOff"
    /\ last.prevOp = "takeDayOff"
    /\ last.ret = "true"
    /\ Len(settings.dayOffRecords) >= 2
    /\ Len(last.recordsBefore) = Len(settings.dayOffRecords) + 1

\* C10: undoDayOff with today recorded removes today and returns true; with
\* today not recorded it returns false and leaves the ledger; afterwards
\* isDayOff(today) is false, and no other record is gone.
C10_UndoDayOff ==
    [][last'.op = "undoDayOff"
       => (/\ IF Today \in DayOffSet
              THEN /\ last'.ret = "true"
                   /\ DayOffSet' = DayOffSet \ {Today}
                   /\ Len(settings'.dayOffRecords) = Len(settings.dayOffRecords) - 1
                   /\ settings'.dayOffLimit = settings.dayOffLimit
              ELSE last'.ret = "false" /\ settings' = settings
           /\ ~isDayOff(formatDate(clock))')]_vars

C10_Witness ==
    /\ last.op = "undoDayOff"
    /\ last.ret = "true"
    /\ Includes(last.recordsBefore, Today)
    /\ ~isDayOff(Today)
    /\ settings.dayOffRecords # <<>>

----------------------------------------------------------------------------
(* Purge and initialization *)

InMonthOf(d, day) == d[1] = day[1] /\ d[2] = day[2]

\* C11: after purgeOldDayOffRecords the records are exactly the prior records
\* of the current month, none of another month and none dropped, and
\* dayOffLimit is as before.
C11_PurgeKeepsCurrentMonth ==
    [][last'.op = "purgeOldDayOffRecords"
       => (/\ DayOffSet' = {d \in DayOffSet : InMonthOf(d, Today)}
           /\ Len(settings'.dayOffRecords) = UsedInMonthOf(settings.dayOffRecords, Today)
           /\ settings'.dayOffLimit = settings.dayOffLimit)]_vars

\* a purge dropped records of an earlier month and kept one of this month
C11_Witness ==
    /\ last.op = "purgeOldDayOffRecords"
    /\ Len(last.recordsBefore) > Len(settings.dayOffRecords)
    /\ settings.dayOffRecords # <<>>
    /\ \A d \in DayOffSet : InMonthOf(d, Today)

\* C12: once the initAppData call of the script load has run, the stored
\* dayOffRecords hold no date outside the current month and the keys routines,
\* settings and completions exist in the store.
C12_InitPrunesAndCreatesKeys ==
    last.op = "initAppData"
    => (/\ \A d \in DayOffSet : InMonthOf(d, Today)
        /\ {ROUTINES_KEY, SETTINGS_KEY, COMPLETIONS_KEY} \subseteq stored)

----------------------------------------------------------------------------
(* Uncomplete and the streak invariant *)

\* the habit the streak specifications start with
TheHabit == HabitOf(routines, 1, 0)

\* the dates whose list in the completion log holds the pair
DoneDates(routineId, habitIndex) ==
    {d \in DOMAIN completions : Includes(completions[d], Pair(routineId, habitIndex))}

Latest(dates) == CHOOSE d \in dates : \A e \in dates : DaysFromCivil(e) <= DaysFromCivil(d)

\* the number of completed days in the run that ends at date d: each one is
\* joined to the one before it by day-off dates only
RECURSIVE QualifyingRun(_, _, _)
QualifyingRun(routineId, habitIndex, d) ==
    IF d = NoDate \/ d \notin DoneDates(routineId, habitIndex) THEN 0
    ELSE LET earlier == {e \in DoneDates(routineId, habitIndex) :
                            DaysFromCivil(e) < DaysFromCivil(d)}
         IN  IF earlier = {} THEN 1
             ELSE IF DatesBetween(Latest(earlier), d) \subseteq DayOffSet
                  THEN 1 + QualifyingRun(routineId, habitIndex, Latest(earlier))
                  ELSE 1

\* C13: in every state reachable by completeHabit, uncompleteHabit, takeDayOff,
\* undoDayOff and day advances, the streak of a habit is the number of
\* consecutive qualifying days (completed days, joined over day-off dates only)
\* that end at its lastCompletedDate.
C13_StreakIsQualifyingRun ==
    TheHabit.streak = QualifyingRun(1, 0, TheHabit.lastCompletedDate)

\* the last call was uncompleteHabit on an existing habit and it returned
UncompletedHabit ==
    /\ last.op = "uncompleteHabit"
    /\ last.ret = "undefined"
    /\ HasHabit(routines, last.routineId, last.habitIndex)

\* C14: uncompleteHabit with sameDay true on a habit whose lastCompletedDate is
\* today clears lastCompletedDate, sets streak to max(streak - 1, 0) and
\* removes the pair from today's completion log.
C14_UncompleteSameDay ==
    (UncompletedHabit /\ last.sameDay /\ last.habitBefore.lastCompletedDate = Today)
    => (/\ HabitNow.lastCompletedDate = NoDate
        /\ HabitNow.streak = (IF last.habitBefore.streak - 1 > 0
                              THEN last.habitBefore.streak - 1 ELSE 0)
        /\ ~PairLogged)

\* a streak of two or more was stepped back by an uncomplete of today
C14_Witness ==
    /\ UncompletedHabit /\ last.sameDay
    /\ last.habitBefore.lastCompletedDate = Today
    /\ last.habitBefore.streak >= 2
    /\ HabitNow.streak = last.habitBefore.streak - 1

\* C15: uncompleteHabit with sameDay false, or on a habit whose
\* lastCompletedDate is not today, leaves streak and lastCompletedDate as they
\* were; nothing changes but today's completion log, which loses the pair.
C15_UncompleteNoRevert ==
    [][(/\ last'.op = "uncompleteHabit"
        /\ last'.ret = "undefined"
        /\ HasHabit(routines, last'.routineId, last'.habitIndex)
        /\ (~last'.sameDay
            \/ HabitOf(routines, last'.routineId, last'.habitIndex).lastCompletedDate # Today))
       => (/\ routines' = routines
           /\ settings' = settings
           /\ \A d \in DOMAIN completions :
                 /\ d \in DOMAIN completions'
                 /\ d # Today => completions'[d] = completions[d]
           /\ DOMAIN completions' = DOMAIN completions
           /\ Today \in DOMAIN completions =>
                 /\ ~Includes(completions'[Today], Pair(last'.routineId, last'.habitIndex))
                 /\ \A c \in {completions[Today][i] : i \in DOMAIN completions[Today]} :
                       c # Pair(last'.routineId, last'.habitIndex)
                       => Includes(completions'[Today], c))]_vars

\* uncompleteHabit with sameDay false took the pair of a habit completed today
\* out of the log and left the habit as it was
C15_Witness ==
    /\ UncompletedHabit /\ ~last.sameDay
    /\ last.habitBefore.lastCompletedDate = Today
    /\ HabitNow.lastCompletedDate = Today
    /\ HabitNow.streak = last.habitBefore.streak
    /\ HabitNow.streak >= 1
    /\ Today \in DOMAIN completions
    /\ ~PairLogged

----------------------------------------------------------------------------
(* Completion log and habit state *)

\* the pair of the habit is in today's list exactly when the habit's
\* lastCompletedDate is today
LogConsistent ==
    (/\ Today \in DOMAIN completions
     /\ Includes(completions[Today], Pair(1, 0)))
    <=> TheHabit.lastCompletedDate = Today

\* C19 as stated: in every state reachable by completeHabit, uncompleteHabit
\* with sameDay true or false, and day advances, without storage failures, the
\* pair is in today's completion log if and only if the habit's
\* lastCompletedDate is today.
C19_LogConsistentAnyFlag == LogConsistent

\* C19: completeHabit, uncompleteHabit with sameDay true, and day advances
\* keep the completion log consistent with the habit: from a state where the
\* pair is in today's log exactly when lastCompletedDate is today, each of them
\* leads to such a state; only uncompleteHabit with sameDay false does not.
C19_LogConsistentSameDay ==
    [][(LogConsistent /\ ~(last'.op = "uncompleteHabit" /\ ~last'.sameDay))
       => LogConsistent']_vars

\* uncompleteHabit with sameDay true undid a completion of today: the pair is
\* out of the log and the date is cleared
C19_Witness ==
    /\ UncompletedHabit /\ last.sameDay
    /\ last.prevOp = "completeHabit"
    /\ last.habitBefore.lastCompletedDate = Today
    /\ Today \in DOMAIN completions
    /\ ~Includes(completions[Today], Pair(1, 0))
    /\ TheHabit.lastCompletedDate = NoDate

----------------------------------------------------------------------------
(* Storage failures *)

\* C16: when either store write can fail, after a completeHabit call the
\* persisted routines and the persisted completion log are either both updated
\* for this completion (the habit's lastCompletedDate is today and the pair is
\* in today's list) or both as they were.
C16_CompleteAllOrNothing ==
    [][(/\ last'.op = "completeHabit"
        /\ HasHabit(routines, last'.routineId, last'.habitIndex))
       => (\/ routines' = routines /\ completions' = completions
           \/ /\ HabitOf(routines', last'.routineId, last'.habitIndex).lastCompletedDate = Today
              /\ Today \in DOMAIN completions'
              /\ Includes(completions'[Today], Pair(last'.routineId, last'.habitIndex)))]_vars

WritingOps == {"takeDayOff", "undoDayOff", "addRoutine", "updateRoutine"}

\* C17: when the write inside takeDayOff, undoDayOff, addRoutine or
\* updateRoutine fails, the value the operation returns is not the one that
\* reports success.
C17_WriteFailureReported ==
    (last.op \in WritingOps /\ last.writeFailed) => last.ret # "true"

----------------------------------------------------------------------------
(* Routine names *)

SameNameIgnoringCase(a, b) == toLowerCase(a) = toLowerCase(b)

\* C20: addRoutine with a name equal, ignoring case, to the name of an existing
\* routine returns false and leaves the collection as it was; with any other
\* name it returns true and the collection is the old one with exactly the new
\* routine, under a new id, added.
C20_AddRoutine ==
    [][last'.op = "addRoutine"
       => IF \E i \in DOMAIN routines : SameNameIgnoringCase(routines[i].name, last'.name)
          THEN last'.ret = "false" /\ routines' = routines
          ELSE /\ last'.ret = "true"
               /\ Len(routines') = Len(routines) + 1
               /\ SubSeq(routines', 1, Len(routines)) = routines
               /\ routines'[Len(routines')].name = last'.name
               /\ \A i \in DOMAIN routines :
                     routines[i].id # routines'[Len(routines')].id]_vars

\* a second routine was added, and then a name that differs from an existing
\* one by case only was rejected
C20_Witness ==
    /\ last.op = "addRoutine"
    /\ last.ret = "false"
    /\ Len(routines) = 2
    /\ \E i \in DOMAIN routines :
          routines[i].name # last.name /\ SameNameIgnoringCase(routines[i].name, last.name)

----------------------------------------------------------------------------
(* Clock set back *)

\* the last call completed a habit whose lastCompletedDate is after today
CompletedBeforeLast ==
    /\ CompletedHabit
    /\ last.habitBefore.lastCompletedDate # NoDate
    /\ DaysFromCivil(Today) < DaysFromCivil(last.habitBefore.lastCompletedDate)

\* C18 as stated: when today is earlier than the habit's non-empty
\* lastCompletedDate, completeHabit resets streak to 1 and sets
\* lastCompletedDate to today.
C18_BackwardResets ==
    CompletedBeforeLast
    => (HabitNow.streak = 1 /\ HabitNow.lastCompletedDate = Today)

\* C18: when today is earlier than the habit's non-empty lastCompletedDate,
\* completeHabit leaves streak as it was, sets lastCompletedDate to today and
\* logs the pair for today.
C18_BackwardKeepsStreak ==
    CompletedBeforeLast
    => (/\ HabitNow.streak = last.habitBefore.streak
        /\ HabitNow.lastCompletedDate = Today
        /\ PairLogged)

\* a habit with a streak of two or more was completed on a date before its
\* lastCompletedDate
C18_Witness ==
    /\ CompletedBeforeLast
    /\ last.habitBefore.streak >= 2
    /\ HabitNow.streak = last.habitBefore.streak
    /\ HabitNow.lastCompletedDate = Today

----------------------------------------------------------------------------
(* Routine manager *)

\* C21: after any sequence of addRoutine, updateRoutine and deleteRoutine
\* calls from an empty collection, no two routines have names that are equal
\* ignoring case.
C21_NamesUnique ==
    \A i, j \in DOMAIN routines :
        i # j => ~SameNameIgnoringCase(routines[i].name, routines[j].name)

\* two routines are there and an update has just renamed one of them
C21_Witness ==
    /\ Len(routines) = 2
    /\ last.op = "updateRoutine"
    /\ last.ret = "true"
    /\ \E i \in DOMAIN routines : routines[i].id = last.routineId /\ routines[i].name = last.name
    /\ \E i \in DOMAIN routines : routines[i].name = "Evening"

\* the routine of the call is not there, or another routine has the name of
\* the call, ignoring case
UpdateRejected(rs, routineId, name) ==
    \/ FindIndexById(rs, routineId) = 0
    \/ \E j \in DOMAIN rs : rs[j].id # routineId /\ SameNameIgnoringCase(rs[j].name, name)

\* C22: updateRoutine returns false and leaves the collection as it was when
\* the id is unknown or another routine has the new name ignoring case; in
\* every other call, a change of the letter case of the routine's own name
\* included, it returns true and only the addressed routine changes.
C22_UpdateRoutine ==
    [][last'.op = "updateRoutine"
       => IF UpdateRejected(routines, last'.routineId, last'.name)
          THEN last'.ret = "false" /\ routines' = routines
          ELSE /\ last'.ret = "true"
               /\ Len(routines') = Len(routines)
               /\ \A j \in DOMAIN routines :
                     IF routines[j].id = last'.routineId
                     THEN routines'[j].id = routines[j].id /\ routines'[j].name = last'.name
                     ELSE routines'[j] = routines[j]]_vars

\* an update was rejected for the name of another routine, written in another
\* letter case
C22_Witness ==
    /\ last.op = "updateRoutine"
    /\ last.ret = "false"
    /\ FindIndexById(routines, last.routineId) # 0
    /\ \E j \in DOMAIN routines :
          /\ routines[j].id # last.routineId
          /\ routines[j].name # last.name
          /\ SameNameIgnoringCase(routines[j].name, last.name)

----------------------------------------------------------------------------
(* Not-found calls *)

KnownId(rs, routineId) == \E i \in DOMAIN rs : rs[i].id = routineId

\* the routine is there and the index is outside its habits
IndexOutside(rs, routineId, habitIndex) ==
    \E i \in DOMAIN rs : rs[i].id = routineId /\ habitIndex + 1 \notin DOMAIN rs[i].habits

HabitOps == {"completeHabit", "uncompleteHabit"}

\* C23: completeHabit and uncompleteHabit with a routine id that is not in the
\* collection return without raising and leave routines, completions and
\* settings as they were; deleteRoutine with such an id leaves the contents of
\* the collection as they were.
C23_UnknownRoutineNoOp ==
    [][/\ (last'.op \in HabitOps /\ ~KnownId(routines, last'.routineId))
          => (/\ last'.ret = "undefined"
              /\ routines' = routines
              /\ completions' = completions
              /\ settings' = settings)
       /\ (last'.op = "deleteRoutine" /\ ~KnownId(routines, last'.routineId))
          => routines' = routines]_vars

\* a habit call named a routine that is not there, while another routine and
\* a logged completion are
C23_Witness ==
    /\ last.op \in HabitOps
    /\ ~KnownId(routines, last.routineId)
    /\ last.ret = "undefined"
    /\ routines # <<>>
    /\ DOMAIN completions # {}

\* C24: completeHabit and uncompleteHabit with an existing routine id and a
\* habit index outside the routine's habits return early, raise no exception
\* and leave routines and completions as they were.
C24_IndexOutsideNoOp ==
    [][(last'.op \in HabitOps /\ IndexOutside(routines, last'.routineId, last'.habitIndex))
       => (/\ last'.ret # "TypeError"
           /\ routines' = routines
           /\ completions' = completions)]_vars

----------------------------------------------------------------------------
(* Quota updates *)

\* C25: updateSettings with a new dayOffLimit replaces dayOffLimit only:
\* dayOffRecords is as before, also when the new limit is below the number of
\* day-offs already taken this month, and every recorded date is still a day
\* off.
C25_QuotaUpdateKeepsRecords ==
    [][last'.op = "updateSettings"
       => (/\ settings'.dayOffRecords = settings.dayOffRecords
           /\ settings'.dayOffLimit \in 0..MaxLimit
           /\ \A d \in DayOffSet : Includes(settings'.dayOffRecords, d)
           /\ routines' = routines
           /\ completions' = completions)]_vars

\* the limit was set below the number of day-offs taken this month
C25_Witness ==
    /\ last.op = "updateSettings"
    /\ settings.dayOffLimit < UsedInMonthOf(settings.dayOffRecords, Today)
    /\ settings.dayOffRecords = last.recordsBefore
    /\ \A d \in DayOffSet : isDayOff(d)

----------------------------------------------------------------------------
(* Completion log *)

NoDuplicatePairs(log) ==
    \A d \in DOMAIN log : \A i, j \in DOMAIN log[d] : i # j => log[d][i] # log[d][j]

\* C26: no date's completion log holds the same pair twice, after any sequence
\* of completeHabit and uncompleteHabit calls; a completeHabit for a pair that
\* today's log already holds adds nothing to the log.
C26_LogHasNoDuplicates ==
    [][/\ NoDuplicatePairs(completions')
       /\ (/\ last'.op = "completeHabit"
           /\ Today \in DOMAIN completions
           /\ Includes(completions[Today], Pair(last'.routineId, last'.habitIndex)))
          => completions' = completions]_vars

\* a habit reset by the edit form was completed again on a day whose log
\* already held its pair
C26_Witness ==
    /\ last.op = "completeHabit"
    /\ last.prevOp = "updateRoutine"
    /\ last.habitBefore.lastCompletedDate = NoDate
    /\ HasHabit(routines, last.routineId, last.habitIndex)
    /\ HabitNow.lastCompletedDate = Today
    /\ Today \in DOMAIN completions
    /\ completions[Today] = <<Pair(last.routineId, last.habitIndex)>>

----------------------------------------------------------------------------
(* Ledger invariants *)

NoDuplicateDates(records) ==
    \A i, j \in DOMAIN records : i # j => records[i] # records[j]

----------------------------------------------------------------------------
(* Streak bounds *)

\* C28: the streak of a habit is never negative, and it is at least 1 whenever
\* the habit's lastCompletedDate is not empty, in every state reached from a
\* newly added routine by completeHabit and uncompleteHabit.
C28_StreakBounds ==
    \A r \in DOMAIN routines : \A h \in DOMAIN routines[r].habits :
        /\ routines[r].habits[h].streak >= 0
        /\ routines[r].habits[h].lastCompletedDate # NoDate
           => routines[r].habits[h].streak >= 1

\* an uncomplete took the only completion of a habit back: streak 0, no date
C28_Witness ==
    /\ UncompletedHabit /\ last.sameDay
    /\ last.habitBefore.streak = 1
    /\ last.habitBefore.lastCompletedDate = Today
    /\ HabitNow.streak = 0
    /\ HabitNow.lastCompletedDate = NoDate

----------------------------------------------------------------------------
(* Month boundaries *)

\* date d lies in a month before the month of date day
EarlierMonth(d, day) == d[1] < day[1] \/ (d[1] = day[1] /\ d[2] < day[2])

\* the ledger holds no date of a month before the current one
NoEarlierMonthRecord == \A d \in DayOffSet : ~EarlierMonth(d, Today)

\* C29: the purge loses the day-offs of earlier months: after it isDayOff is
\* false for every date of an earlier month, and a completeHabit that then
\* finds a date of an earlier month in its gap resets the streak to 1 instead
\* of incrementing it.
C29_PurgedDayOffBreaksStreak ==
    [][/\ last'.op = "purgeOldDayOffRecords"
          => \A d \in DayOffSet : EarlierMonth(d, Today) => ~Includes(settings'.dayOffRecords, d)
       /\ (/\ last'.op = "completeHabit"
           /\ HasHabit(routines, last'.routineId, last'.habitIndex)
           /\ NoEarlierMonthRecord
           /\ last'.habitBefore.lastCompletedDate # NoDate
           /\ \E g \in DatesBetween(last'.habitBefore.lastCompletedDate, Today) :
                 EarlierMonth(g, Today))
          => HabitOf(routines', last'.routineId, last'.habitIndex).streak = 1]_vars

\* a purge dropped a day off of the month before, and the completeHabit that
\* followed, with that date in its gap, restarted the streak
C29_Witness ==
    /\ CompletedHabit
    /\ last.prevOp = "purgeOldDayOffRecords"
    /\ last.habitBefore.lastCompletedDate # NoDate
    /\ \E g \in DatesBetween(last.habitBefore.lastCompletedDate, Today) :
          /\ EarlierMonth(g, Today)
          /\ Includes(last.prevRecordsBefore, g)
          /\ ~isDayOff(g)
    /\ DatesBetween(last.habitBefore.lastCompletedDate, Today)
          \subseteq {last.prevRecordsBefore[i] : i \in DOMAIN last.prevRecordsBefore}
    /\ HabitNow.streak = 1

\* C30: records of earlier months do not count toward the quota of the
\* current month: with dayOffLimit > 0 and no record of the current month,
\* canTakeDayOff returns true, purged or not.
C30_QuotaResetsEachMonth ==
    (/\ last.op = "canTakeDayOff"
     /\ settings.dayOffLimit > 0
     /\ UsedInMonthOf(settings.dayOffRecords, Today) = 0)
    => last.ret = "true"

\* canTakeDayOff said yes in a new month while the unpurged ledger holds at
\* least as many dates of the month before as the limit allows in a month
C30_Witness ==
    /\ last.op = "canTakeDayOff"
    /\ last.ret = "true"
    /\ settings.dayOffLimit > 0
    /\ Len(settings.dayOffRecords) >= settings.dayOffLimit
    /\ \A d \in DayOffSet : EarlierMonth(d, Today)

----------------------------------------------------------------------------
(* Time zones *)

\* the date n calendar days after date d
DateAfter(d, n) == CivilFromDays(DaysFromCivil(d) + n)

\* C31: in every time zone the gap completeHabit computes is the calendar-day
\* difference between lastCompletedDate and today, and for a gap g > 1 the
\* date the loop passes to isDayOff in round i is the i-th calendar date after
\* lastCompletedDate, for i = 1 .. g - 1: the dates strictly between the two,
\* neither endpoint, none skipped or shifted.
C31_GapDatesExact ==
    (/\ CompletedHabit
     /\ last.habitBefore.lastCompletedDate # NoDate
     /\ CalendarGap(last.habitBefore.lastCompletedDate, Today) > 1)
    => (/\ diffDays(last.habitBefore.lastCompletedDate, Today)
              = CalendarGap(last.habitBefore.lastCompletedDate, Today)
        /\ \A i \in 1..(CalendarGap(last.habitBefore.lastCompletedDate, Today) - 1) :
              checkStr(last.habitBefore.lastCompletedDate, i)
                  = DateAfter(last.habitBefore.lastCompletedDate, i))

----------------------------------------------------------------------------
(* Complete / uncomplete cycling *)

\* the call before was an uncompleteHabit with sameDay true that took back a
\* completion of today, itself made by the completeHabit before it, and this
\* step completes the same habit again
CycleStep ==
    /\ last.op = "uncompleteHabit" /\ last.sameDay /\ last.ret = "undefined"
    /\ last.prevOp = "completeHabit"
    /\ HasHabit(routines, last.routineId, last.habitIndex)
    /\ last.habitBefore.lastCompletedDate = Today
    /\ last'.op = "completeHabit"
    /\ last'.routineId = last.routineId
    /\ last'.habitIndex = last.habitIndex

\* C32: completeHabit, uncompleteHabit with sameDay true, completeHabit on one
\* date ends with streak 1 and lastCompletedDate today, which is lower than
\* the streak the first completeHabit alone had stored whenever that call had
\* incremented the streak (to 2 or more).
C32_CyclingErodesStreak ==
    [][CycleStep
       => (/\ HabitOf(routines', last.routineId, last.habitIndex).streak = 1
           /\ HabitOf(routines', last.routineId, last.habitIndex).lastCompletedDate = Today
           /\ last.habitBefore.streak >= 2
              => HabitOf(routines', last.routineId, last.habitIndex).streak
                    < last.habitBefore.streak)]_vars

\* the second completion of the cycle found a streak left over by the
\* uncomplete and no date, and stored 1
C32_Witness ==
    /\ CompletedHabit
    /\ last.prevOp = "uncompleteHabit"
    /\ last.habitBefore.lastCompletedDate = NoDate
    /\ last.habitBefore.streak >= 1
    /\ HabitNow.streak = 1
    /\ HabitNow.lastCompletedDate = Today

----------------------------------------------------------------------------
(* Quota under a guarded caller *)

\* C33: when takeDayOff is called only where canTakeDayOff returns true and
\* dayOffLimit is never lowered, the number of dayOffRecords of the current
\* month is at most dayOffLimit in every state, across take, undo, purge and
\* day and month advances.
C33_GuardedQuotaHolds ==
    UsedInMonthOf(settings.dayOffRecords, Today) <= settings.dayOffLimit

\* the month's quota is used up on a day that is not a day off: the guard
\* refuses for the count alone
C33_Witness ==
    /\ settings.dayOffLimit >= 1
    /\ UsedInMonthOf(settings.dayOffRecords, Today) = settings.dayOffLimit
    /\ Today \notin DayOffSet
    /\ ~canTakeDayOff
    /\ last.op = "advanceDay"

----------------------------------------------------------------------------
(* Frames *)

\* the completion log changes at the entry of date day, if at all
LogChangesOnlyAt(day) ==
    /\ DOMAIN completions' \subseteq DOMAIN completions \cup {day}
    /\ \A d \in DOMAIN completions :
          d # day => (d \in DOMAIN completions' /\ completions'[d] = completions[d])

\* C34: completeHabit and uncompleteHabit change the addressed habit only: the
\* streak and lastCompletedDate of every other habit of the same routine and
\* of every other routine, each routine's id, name and habit order, and the
\* day-off settings stay, and in the completion log only the entry of the
\* current date can change.
C34_HabitCallFrame ==
    [][last'.op \in HabitOps
       => (/\ Len(routines') = Len(routines)
           /\ \A r \in DOMAIN routines :
                 /\ routines'[r].id = routines[r].id
                 /\ routines'[r].name = routines[r].name
                 /\ Len(routines'[r].habits) = Len(routines[r].habits)
                 /\ \A h \in DOMAIN routines[r].habits :
                       /\ routines'[r].habits[h].title = routines[r].habits[h].title
                       /\ routines'[r].habits[h].time = routines[r].habits[h].time
                       /\ (routines[r].id # last'.routineId \/ h # last'.habitIndex + 1)
                          => routines'[r].habits[h] = routines[r].habits[h]
           /\ settings' = settings
           /\ LogChangesOnlyAt(Today))]_vars

\* the second habit of a routine was completed while the first habit, another
\* routine's habit and the log of an earlier date carried state of their own
C34_Witness ==
    /\ CompletedHabit
    /\ last.routineId = 1 /\ last.habitIndex = 1
    /\ HabitNow.lastCompletedDate = Today
    /\ routines[1].habits[1].streak >= 1
    /\ routines[1].habits[1].lastCompletedDate # Today
    /\ routines[2].habits[1].lastCompletedDate = Today
    /\ \E d \in DOMAIN completions : d # Today /\ completions[d] # <<>>

\* the records of the ledger without the entries of one date, in their order
RecordsExcept(records, day) ==
    LET other(d) == d # day IN SelectSeq(records, other)

LedgerOps == {"takeDayOff", "undoDayOff"}

\* C35: takeDayOff and undoDayOff can only add or remove the current date:
\* every other date of dayOffRecords stays, in its place, dayOffLimit, the
\* routines and the completion log stay, and a recorded day off of a date
\* other than today leaves the ledger through the purge alone.
C35_LedgerCallFrame ==
    [][/\ last'.op \in LedgerOps
          => /\ RecordsExcept(settings'.dayOffRecords, Today)
                   = RecordsExcept(settings.dayOffRecords, Today)
             /\ settings'.dayOffLimit = settings.dayOffLimit
             /\ routines' = routines
             /\ completions' = completions
       /\ \A d \in DayOffSet :
             (d # Today /\ \A i \in DOMAIN settings'.dayOffRecords :
                              settings'.dayOffRecords[i] # d)
             => last'.op = "purgeOldDayOffRecords"]_vars

\* a day off taken while the ledger holds an earlier date, the routine has a
\* streak and the log an entry; and an undo that left the earlier date
C35_Witness ==
    /\ last.op = "undoDayOff" /\ last.ret = "true" /\ ~last.writeFailed
    /\ Len(last.recordsBefore) >= 2
    /\ \E i \in DOMAIN last.recordsBefore : last.recordsBefore[i] = Today
    /\ settings.dayOffRecords = RecordsExcept(last.recordsBefore, Today)
    /\ settings.dayOffRecords # <<>>
    /\ routines[1].habits[1].streak >= 1
    /\ completions # <<>>

ManageOps == {"addRoutine", "updateRoutine", "deleteRoutine"}

\* the pairs the log holds, over all its dates
LoggedPairs ==
    UNION {{completions[d][i] : i \in DOMAIN completions[d]} : d \in DOMAIN completions}

\* C36: routine management never adjusts the completion log: addRoutine,
\* updateRoutine and deleteRoutine leave it as it was, and no operation changes
\* the entry of a date other than the current one; the log so keeps the pairs
\* of a deleted routine and of a habit index an edit has put out of range.
C36_LogOutlivesRoutines ==
    [][/\ last'.op \in ManageOps => completions' = completions
       /\ LogChangesOnlyAt(Today)]_vars

\* after a routine was edited and another deleted, the log still holds a pair
\* of the deleted routine and a pair whose index the edit put out of range
C36_Witness ==
    /\ last.op \in ManageOps /\ last.ret # "false" /\ ~last.writeFailed
    /\ \E c \in LoggedPairs : ~KnownId(routines, c.routineId)
    /\ \E c \in LoggedPairs : IndexOutside(routines, c.routineId, c.habitIndex)
    /\ \E d \in DOMAIN completions : d # Today /\ completions[d] # <<>>

\* the last call was an updateRoutine that saved its edit
SavedEdit(l) == l.op = "updateRoutine" /\ l.ret = "true" /\ ~l.writeFailed

\* C37: an edit saved through the manage form, a rename included, keeps the
\* routine's id and place and the other routines, and replaces every habit of
\* the routine by one with streak 0 and no lastCompletedDate: the streaks are
\* lost, and a completeHabit that follows on the same day counts the habit
\* again, whatever was completed before the edit.
C37_EditResetsHabits ==
    [][/\ SavedEdit(last') =>
             /\ Len(routines') = Len(routines)
             /\ \A r \in DOMAIN routines :
                   /\ routines'[r].id = routines[r].id
                   /\ IF routines[r].id = last'.routineId
                      THEN /\ routines'[r].name = last'.name
                           /\ routines'[r].habits # <<>>
                           /\ \A h \in DOMAIN routines'[r].habits :
                                 /\ routines'[r].habits[h].streak = 0
                                 /\ routines'[r].habits[h].lastCompletedDate = NoDate
                      ELSE routines'[r] = routines[r]
       /\ (/\ SavedEdit(last)
           /\ last'.op = "completeHabit" /\ last'.routineId = last.routineId
           /\ HasHabit(routines, last'.routineId, last'.habitIndex)
           /\ routines' # routines) =>
             /\ HabitOf(routines', last'.routineId, last'.habitIndex).streak = 1
             /\ HabitOf(routines', last'.routineId, last'.habitIndex).lastCompletedDate
                   = Today]_vars

\* both habits of routine 1 were completed today, on top of yesterday's streak;
\* the edit then left one habit row, and the habit at index 0 was completed
\* once more today, its streak 1 where it had been 2
C37_Witness ==
    /\ CompletedHabit
    /\ last.prevOp = "updateRoutine"
    /\ last.routineId = 1 /\ last.habitIndex = 0
    /\ last.habitBefore = [streak |-> 0, lastCompletedDate |-> NoDate]
    /\ HabitNow.streak = 1 /\ HabitNow.lastCompletedDate = Today
    /\ Today \in DOMAIN completions
    /\ completions[Today] = <<Pair(1, 0), Pair(1, 1)>>
    /\ Len(routines[1].habits) = 1

\* the dates a load leaves in the ledger when it marks every date strictly
\* between the stored usage date and today and then purges the earlier months
MarkedAndPurged(records, from, to) ==
    {d \in {records[i] : i \in DOMAIN records} \cup DatesBetween(from, to) :
        ~EarlierMonth(d, to)}

\* C38: a load that finds a stored lastUsageDate L earlier than today leaves
\* in dayOffRecords, once each, the dates it held and every calendar date
\* strictly between L and today (not L, not today, whatever dayOffLimit is),
\* less the dates of months before the current one, which its purge removes;
\* and it sets lastUsageDate to today.
C38_LoadMarksMissedDays ==
    [][(/\ last'.op = "initAppData" /\ last'.ret = "undefined"
        /\ lastUsageDate # NoDate
        /\ DaysFromCivil(lastUsageDate) < DaysFromCivil(Today))
       => /\ lastUsageDate' = Today
          /\ {settings'.dayOffRecords[i] : i \in DOMAIN settings'.dayOffRecords}
                = MarkedAndPurged(settings.dayOffRecords, lastUsageDate, Today)
          /\ NoDuplicateDates(settings'.dayOffRecords)]_vars

====
